---- MODULE Spec2Model ----
(***************************************************************************)
(* A model of inkcheck's device-polling core:                              *)
(*   - Value Retrieval: get_snmp_value and its retry loop (SpecFetch);     *)
(*   - the driver registry and the Generic / Brother drivers (SpecPoll);   *)
(*   - the supply level calculator (SpecCalc);                             *)
(*   - parse_oid_to_vec (SpecParse) and load_printer (SpecLoad);           *)
(*   - the session factory and engine discovery (SpecSession);             *)
(*   - two get_snmp_value calls running in parallel (SpecPar).             *)
(* Each component has its own specification over the shared variables; the *)
(* variables of the other components stay at their idle values.            *)
(***************************************************************************)
EXTENDS Integers, Sequences, FiniteSets, TLC

VARIABLES
    fRetries,   \* ctx.retries of the get_snmp_value call
    fPc,        \* position of the call: "create", "loop", "await", "reinit", "done"
    fIter,      \* iterations of `for _ in 1..=ctx.retries` consumed so far
    fType,      \* the requested type T
    fLog,       \* events of the call, in order
    fResult,    \* what the call returned
    fReply,     \* the reply the call received, if one arrived
    cInput,     \* the Printer as it was handed to the supply level calculator
    cPrinter,   \* the Printer the supply level calculator works on
    cBuild,     \* build profile: "debug" checks arithmetic overflow, "release" wraps
    cRan,       \* per supply slot, the calculator that has run on it
    cPanicked,  \* the calculator panicked
    pPc,        \* position of the poll
    pExtra,     \* params.extra_supplies
    pDevice,    \* the level / max_level the device reports
    pName,      \* the device name fetched first
    pDriver,    \* the driver selected for the name
    pDoc,       \* the mapping document load_printer returned
    pOids,      \* the *_oid locals of the Generic driver
    pValues,    \* the values fetched so far
    pSerial,    \* serial_number
    pBlob,      \* the maintenance blob the Brother driver fetched
    pIdx,       \* value fetches of the Generic driver completed
    pLog,       \* the fetches issued, in order, each with its outcome
    pResult,    \* what the poll returned
    oSegments,  \* the pieces the OID string was written from
    oInput,     \* the OID string handed to parse_oid_to_vec
    oResult,    \* what parse_oid_to_vec returned
    sParams,    \* version, security level and credentials handed to the session factory
    sPc,        \* position of the session factory
    sLog,       \* datagrams sent to the device while the session is built
    sReply,     \* the reply to the discovery probe, if one arrived
    sEngine,    \* the engine identifier discovery returned
    sResult,    \* what the session factory returned
    lBrand,     \* the brand token handed to load_printer
    lModel,     \* the device name handed to load_printer
    lDir,       \* data_dir and what the file system holds at it
    lResult,    \* what load_printer returned
    qRetries,   \* per concurrent call, its ctx.retries
    qScript,    \* per concurrent call, what the device answers to its queries, in order
    qPc,        \* per concurrent call, its position
    qIter,      \* per concurrent call, the loop iterations it has consumed
    qSession,   \* per concurrent call, the session it opened
    qResult     \* per concurrent call, what it returned

fvars == <<fRetries, fPc, fIter, fType, fLog, fResult, fReply>>

cvars == <<cInput, cPrinter, cBuild, cRan, cPanicked>>

pvars == <<pPc, pBlob, pExtra, pDevice, pName, pDriver, pDoc, pOids, pValues, pSerial, pIdx, pLog, pResult>>

ovars == <<oSegments, oInput, oResult>>

svars == <<sParams, sPc, sLog, sReply, sEngine, sResult>>

lvars == <<lBrand, lModel, lDir, lResult>>

qvars == <<qRetries, qScript, qPc, qIter, qSession, qResult>>

vars == <<fvars, cvars, pvars, ovars, svars, lvars, qvars>>

\* ---------------------------------------------------------------- bounds

\* Largest retry budget explored (ctx.retries ranges over 0..MaxRetries).
MaxRetries == 3

\* The most dot-separated pieces of an OID string that is parsed.
MaxSegments == 3

\* Width, in bits, at which the 64-bit machine integers are modelled.
WordBits == 20

\* ---------------------------------------------------------------- machine integers

Pow2(n) == 2 ^ n

I64Max == Pow2(WordBits - 1) - 1
I64Min == -Pow2(WordBits - 1)
U64Max == Pow2(WordBits) - 1

\* Two's complement wrap-around of a mathematical integer into the signed word.
WrapI64(x) == ((x - I64Min) % Pow2(WordBits)) + I64Min

Abs(x) == IF x < 0 THEN -x ELSE x

\* Rust's `/` on integers: the quotient truncated toward zero.
TruncDiv(a, b) ==
    IF (a >= 0) = (b > 0) THEN Abs(a) \div Abs(b) ELSE -(Abs(a) \div Abs(b))

None == [tag |-> "None"]
Some(x) == [tag |-> "Some", val |-> x]

Ok(x) == [tag |-> "Ok", val |-> x]
Err(kind) == [tag |-> "Err", kind |-> kind]

\* An error whose kind carries a string, as ErrorKind::UnsupportedPrinter(String).
ErrWith(kind, detail) == [tag |-> "Err", kind |-> kind, detail |-> detail]

\* ---------------------------------------------------------------- the Printer's supply slots

TonerSlots == <<"black_toner", "cyan_toner", "magenta_toner", "yellow_toner">>
DrumSlots == <<"black_drum", "cyan_drum", "magenta_drum", "yellow_drum">>
FuserSlots == <<"fuser">>
ReservoirSlots == <<"reservoir">>

\* Every supply slot of a Printer, in the order calculate_all_levels visits them.
SlotOrder == TonerSlots \o DrumSlots \o FuserSlots \o ReservoirSlots

Range(seq) == {seq[i] : i \in 1..Len(seq)}

Slots == Range(SlotOrder)

\* ---------------------------------------------------------------- mapping document keys

Colors == <<"black", "cyan", "magenta", "yellow">>

\* The key path of the mapping document behind a slot's "level" / "max_level".
slot_key(slot, field) ==
    CASE slot = "black_toner" -> <<"toner", "black", field>>
      [] slot = "cyan_toner" -> <<"toner", "cyan", field>>
      [] slot = "magenta_toner" -> <<"toner", "magenta", field>>
      [] slot = "yellow_toner" -> <<"toner", "yellow", field>>
      [] slot = "black_drum" -> <<"drum", "black", field>>
      [] slot = "cyan_drum" -> <<"drum", "cyan", field>>
      [] slot = "magenta_drum" -> <<"drum", "magenta", field>>
      [] slot = "yellow_drum" -> <<"drum", "yellow", field>>
      [] slot = "fuser" -> <<"fuser", "", field>>
      [] slot = "reservoir" -> <<"reservoir", "", field>>

SerialKey == <<"info", "", "serial_number">>

\* The two keys of each slot of `slots`, in the order the driver looks them up.
RECURSIVE slot_keys(_)
slot_keys(slots) ==
    IF slots = <<>> THEN <<>>
    ELSE <<slot_key(slots[1], "level"), slot_key(slots[1], "max_level")>>
         \o slot_keys(Tail(slots))

TonerKeys == slot_keys(TonerSlots)

ExtraKeys == slot_keys(DrumSlots \o FuserSlots \o ReservoirSlots)

Keys == {SerialKey} \cup Range(TonerKeys) \cup Range(ExtraKeys)

\* ---------------------------------------------------------------- idle components

\* The state of a component while another component's specification runs.
FetchIdle ==
    /\ fRetries = 0
    /\ fType = "i64"
    /\ fPc = "idle"
    /\ fIter = 0
    /\ fLog = <<>>
    /\ fResult = None
    /\ fReply = None

CalcIdle ==
    /\ cInput = [s \in Slots |-> None]
    /\ cPrinter = [s \in Slots |-> None]
    /\ cBuild = "release"
    /\ cRan = [s \in Slots |-> "no"]
    /\ cPanicked = FALSE

PollIdle ==
    /\ pPc = "idle"
    /\ pExtra = FALSE
    /\ pDevice = [level |-> 0, max_level |-> 0]
    /\ pName = <<>>
    /\ pDriver = None
    /\ pDoc = None
    /\ pOids = [k \in Keys |-> <<>>]
    /\ pValues = [k \in Keys |-> 0]
    /\ pSerial = None
    /\ pBlob = <<>>
    /\ pIdx = 0
    /\ pLog = <<>>
    /\ pResult = None

ParseIdle ==
    /\ oSegments = <<>>
    /\ oInput = <<>>
    /\ oResult = None

SessionIdle ==
    /\ sParams = [version |-> "V2c", level |-> "NoAuthNoPriv",
                  username |-> None, auth |-> None, priv |-> None]
    /\ sPc = "idle"
    /\ sLog = <<>>
    /\ sReply = None
    /\ sEngine = None
    /\ sResult = None

LoadIdle ==
    /\ lBrand = <<>>
    /\ lModel = ""
    /\ lDir = None
    /\ lResult = None

ParIdle ==
    /\ qRetries = <<0, 0>>
    /\ qScript = <<<<>>, <<>>>>
    /\ qPc = <<"idle", "idle">>
    /\ qIter = <<0, 0>>
    /\ qSession = <<None, None>>
    /\ qResult = <<None, None>>

\* ---------------------------------------------------------------- text

Digits == <<"0", "1", "2", "3", "4", "5", "6", "7", "8", "9">>

IsDigit(c) == \E i \in 1..10 : Digits[i] = c

DigitVal(c) == (CHOOSE i \in 1..10 : Digits[i] = c) - 1

\* The decimal value of a sequence of digits, or -1 once it exceeds `max`
\* (the overflow that makes Rust's integer parsing fail).
RECURSIVE DecimalValue(_, _)
DecimalValue(s, max) ==
    IF s = <<>> THEN 0
    ELSE LET front == DecimalValue(SubSeq(s, 1, Len(s) - 1), max)
             v == front * 10 + DigitVal(s[Len(s)])
         IN IF front < 0 \/ v > max THEN -1 ELSE v

\* str::parse::<u64>: an optional '+', then one or more digits, no overflow.
ParseU64(s) ==
    LET body == IF s # <<>> /\ s[1] = "+" THEN Tail(s) ELSE s
    IN IF body = <<>> \/ \E i \in 1..Len(body) : ~IsDigit(body[i])
       THEN Err("ParseInt")
       ELSE IF DecimalValue(body, U64Max) < 0
            THEN Err("ParseInt")
            ELSE Ok(DecimalValue(body, U64Max))

\* str::split('.'): the pieces between the dots, empty pieces included.
RECURSIVE SplitDot(_)
SplitDot(s) ==
    IF \A i \in 1..Len(s) : s[i] # "."
    THEN <<s>>
    ELSE LET p == CHOOSE i \in 1..Len(s) :
                      s[i] = "." /\ \A j \in 1..(i - 1) : s[j] # "."
         IN <<SubSeq(s, 1, p - 1)>> \o SplitDot(SubSeq(s, p + 1, Len(s)))

\* A parser without the test for the empty string.
parse_oid_to_vec_no_empty_test(oid) ==
    LET segs == SplitDot(oid)
    IN IF \E i \in 1..Len(segs) : ParseU64(segs[i]).tag = "Err"
       THEN Err("InvalidOidFormat")
       ELSE Ok([i \in 1..Len(segs) |-> ParseU64(segs[i]).val])

\* The values of the pieces that parse, in order.
RECURSIVE parsed_only(_)
parsed_only(segs) ==
    IF segs = <<>> THEN <<>>
    ELSE (IF ParseU64(segs[1]).tag = "Ok" THEN <<ParseU64(segs[1]).val>> ELSE <<>>)
         \o parsed_only(Tail(segs))

\* A parser that drops the pieces that do not parse.
parse_oid_to_vec_drops_bad(oid) ==
    IF oid = <<>> THEN Ok(<<>>) ELSE Ok(parsed_only(SplitDot(oid)))

\* utils::parse_oid_to_vec
parse_oid_to_vec(oid) ==
    IF oid = <<>> THEN Ok(<<>>)
    ELSE LET segs == SplitDot(oid)
         IN IF \E i \in 1..Len(segs) : ParseU64(segs[i]).tag = "Err"
            THEN Err("InvalidOidFormat")
            ELSE Ok([i \in 1..Len(segs) |-> ParseU64(segs[i]).val])

\* ---------------------------------------------------------------- value codec

Whitespace == {" "}

\* str::trim: leading and trailing whitespace removed.
RECURSIVE Trim(_)
Trim(s) ==
    IF s = <<>> THEN s
    ELSE IF s[1] \in Whitespace THEN Trim(Tail(s))
    ELSE IF s[Len(s)] \in Whitespace THEN Trim(SubSeq(s, 1, Len(s) - 1))
    ELSE s

\* str::parse::<i64>: an optional sign, then one or more digits, no overflow.
ParseI64(s) ==
    LET neg == s # <<>> /\ s[1] = "-"
        body == IF s # <<>> /\ s[1] \in {"+", "-"} THEN Tail(s) ELSE s
        max == IF neg THEN -I64Min ELSE I64Max
    IN IF body = <<>> \/ \E i \in 1..Len(body) : ~IsDigit(body[i])
       THEN Err("ParseInt")
       ELSE IF DecimalValue(body, max) < 0
            THEN Err("ParseInt")
            ELSE Ok(IF neg THEN -DecimalValue(body, max) ELSE DecimalValue(body, max))

\* i64::to_string
RECURSIVE NatToString(_)
NatToString(n) ==
    IF n < 10 THEN <<Digits[n + 1]>>
    ELSE NatToString(n \div 10) \o <<Digits[(n % 10) + 1]>>

IntToString(n) == IF n < 0 THEN <<"-">> \o NatToString(-n) ELSE NatToString(n)

\* A byte that is not valid UTF-8, and the replacement character.
BadByte == "\\xFF"
Replacement == "\\uFFFD"

IsUtf8(bytes) == \A i \in 1..Len(bytes) : bytes[i] # BadByte

from_utf8_lossy(bytes) ==
    [i \in 1..Len(bytes) |-> IF bytes[i] = BadByte THEN Replacement ELSE bytes[i]]

\* The wire values (snmp2::Value) a reply may carry.
Integer(v) == [kind |-> "Integer", v |-> v]
Counter32(v) == [kind |-> "Counter32", v |-> v]
Timeticks(v) == [kind |-> "Timeticks", v |-> v]
Counter64(v) == [kind |-> "Counter64", v |-> v]
OctetString(b) == [kind |-> "OctetString", v |-> b]
Boolean(b) == [kind |-> "Boolean", v |-> b]
Null == [kind |-> "Null", v |-> 0]

\* impl FromSnmpValue for i64
from_snmp_value_i64(value) ==
    CASE value.kind = "Integer" -> Ok(value.v)
      [] value.kind \in {"Counter32", "Timeticks"} -> Ok(value.v)
      [] value.kind = "Counter64" -> Ok(WrapI64(value.v))
      [] value.kind = "OctetString" ->
            IF ~IsUtf8(value.v) THEN Err("TypeMismatch")
            ELSE IF ParseI64(Trim(value.v)).tag = "Err" THEN Err("TypeMismatch")
            ELSE ParseI64(Trim(value.v))
      [] OTHER -> Err("TypeMismatch")

\* impl FromSnmpValue for String
from_snmp_value_String(value) ==
    CASE value.kind = "OctetString" -> Ok(from_utf8_lossy(value.v))
      [] value.kind = "Integer" -> Ok(IntToString(value.v))
      [] OTHER -> Err("TypeMismatch")

\* impl FromSnmpValue for Vec<u8>
from_snmp_value_Bytes(value) ==
    IF value.kind = "OctetString" THEN Ok(value.v) ELSE Err("TypeMismatch")

Types == {"i64", "String", "Bytes"}

from_snmp_value(T, value) ==
    CASE T = "i64" -> from_snmp_value_i64(value)
      [] T = "String" -> from_snmp_value_String(value)
      [] T = "Bytes" -> from_snmp_value_Bytes(value)

\* ---------------------------------------------------------------- supply level calculator

Panic == [tag |-> "Panic"]

\* Toner / Drum / Fuser / Reservoir { level, max_level, level_percent }
Reading(level, max_level, level_percent) ==
    [level |-> level, max_level |-> max_level, level_percent |-> level_percent]

\* `level * 100` on i64: a panic when overflow is checked, wrap-around otherwise.
mul_100(build, level) ==
    IF level * 100 \in I64Min..I64Max THEN Ok(level * 100)
    ELSE IF build = "debug" THEN Panic
    ELSE Ok(WrapI64(level * 100))

\* i64::checked_div: None on division by zero and on MIN / -1.
checked_div(a, b) ==
    IF b = 0 \/ (a = I64Min /\ b = -1) THEN None ELSE Some(TruncDiv(a, b))

\* The closure `calculate_level_percent` of Printer::calc_and_update_*_level_percent:
\* an Option, or Panic (overflow in a checked build, or expect() on None).
closure_level_percent(build, level, max_level) ==
    IF max_level = 0 THEN None
    ELSE IF mul_100(build, level) = Panic THEN Panic
    ELSE IF checked_div(mul_100(build, level).val, max_level) = None THEN Panic
    ELSE checked_div(mul_100(build, level).val, max_level)

\* The body of CalculateLevel::calculate_level_percent of Option<Toner>,
\* Option<Drum>, Option<Fuser> and Option<Reservoir>.
trait_level_percent(build, level, max_level) ==
    IF max_level > 0
    THEN IF mul_100(build, level) = Panic THEN Panic
         ELSE Some(TruncDiv(mul_100(build, level).val, max_level))
    ELSE None

\* A calculator that leaves a reading alone once its level_percent is set.
calc_group_keeps_preset(printer, build, slots) ==
    IF \E s \in Range(slots) :
          /\ printer[s] # None
          /\ printer[s].val.level_percent = None
          /\ closure_level_percent(build, printer[s].val.level, printer[s].val.max_level) = Panic
    THEN Panic
    ELSE [s \in Slots |->
            IF s \in Range(slots) /\ printer[s] # None /\ printer[s].val.level_percent = None
            THEN Some([printer[s].val EXCEPT !.level_percent =
                         closure_level_percent(build, printer[s].val.level,
                                               printer[s].val.max_level)])
            ELSE printer[s]]

\* The slots of `slots` updated in order by the closure; Panic if one panics.
calc_group(printer, build, slots) ==
    IF \E s \in Range(slots) :
          /\ printer[s] # None
          /\ closure_level_percent(build, printer[s].val.level, printer[s].val.max_level) = Panic
    THEN Panic
    ELSE [s \in Slots |->
            IF s \in Range(slots) /\ printer[s] # None
            THEN Some([printer[s].val EXCEPT !.level_percent =
                         closure_level_percent(build, printer[s].val.level,
                                               printer[s].val.max_level)])
            ELSE printer[s]]

\* Levels and maximum levels the readings are drawn from.
LevelValues ==
    {-7, 0, 300, 1000, 2800, Pow2(WordBits - 3), (I64Max \div 100) + 1, I64Max}

MaxLevelValues == {-3, -1, 0, 3, 3000, 3500, I64Max}

PercentValues == {None, Some(87)}

Readings ==
    {Reading(l, m, p) : l \in LevelValues, m \in MaxLevelValues, p \in PercentValues}

\* The slot after `s` in SlotOrder (the first one after the last).
next_slot(s) ==
    LET i == CHOOSE k \in 1..Len(SlotOrder) : SlotOrder[k] = s
    IN SlotOrder[(i % Len(SlotOrder)) + 1]

\* A Printer as a driver hands it over: one slot holds any reading, the next
\* slot is absent or holds a plain reading, the others are absent.
InitCalc ==
    /\ \E focus \in Slots, r \in Readings, other \in {None, Some(Reading(50, 100, None))} :
         cPrinter = [s \in Slots |-> IF s = focus THEN Some(r)
                                     ELSE IF s = next_slot(focus) THEN other
                                     ELSE None]
    /\ cInput = cPrinter
    /\ cBuild \in {"debug", "release"}
    /\ cRan = [s \in Slots |-> "no"]
    /\ cPanicked = FALSE
    /\ FetchIdle
    /\ PollIdle
    /\ ParseIdle
    /\ SessionIdle
    /\ LoadIdle
    /\ ParIdle

\* Runs the closure calculator over `slots`.
CalcAndUpdate(slots) ==
    /\ ~cPanicked
    /\ IF calc_group(cPrinter, cBuild, slots) = Panic
       THEN /\ cPanicked' = TRUE
            /\ UNCHANGED <<cPrinter, cRan>>
       ELSE /\ cPrinter' = calc_group(cPrinter, cBuild, slots)
            /\ cRan' = [s \in Slots |-> IF s \in Range(slots) /\ cPrinter[s] # None
                                         THEN "closure" ELSE cRan[s]]
            /\ UNCHANGED cPanicked
    /\ UNCHANGED <<cInput, cBuild, fvars, pvars, ovars, svars, lvars, qvars>>

calc_and_update_toners_level_percent == CalcAndUpdate(TonerSlots)

calc_and_update_drums_level_percent == CalcAndUpdate(DrumSlots)

calc_and_update_fuser_level_percent == CalcAndUpdate(FuserSlots)

calc_and_update_reservoir_level_percent == CalcAndUpdate(ReservoirSlots)

calculate_all_levels == CalcAndUpdate(SlotOrder)

\* CalculateLevel::calculate_level_percent on one Option<Toner|Drum|Fuser|Reservoir>.
calculate_level_percent(s) ==
    /\ ~cPanicked
    /\ IF cPrinter[s] = None
       THEN UNCHANGED <<cPrinter, cPanicked>>
       ELSE LET r == cPrinter[s].val
                p == trait_level_percent(cBuild, r.level, r.max_level)
            IN IF p = Panic
               THEN cPanicked' = TRUE /\ UNCHANGED cPrinter
               ELSE /\ cPrinter' = [cPrinter EXCEPT ![s] = Some([r EXCEPT !.level_percent = p])]
                    /\ UNCHANGED cPanicked
    /\ cRan' = IF cPrinter[s] = None
                  \/ trait_level_percent(cBuild, cPrinter[s].val.level,
                                         cPrinter[s].val.max_level) = Panic
               THEN cRan ELSE [cRan EXCEPT ![s] = "trait"]
    /\ UNCHANGED <<cInput, cBuild, fvars, pvars, ovars, svars, lvars, qvars>>

NextCalc ==
    \/ calc_and_update_toners_level_percent
    \/ calc_and_update_drums_level_percent
    \/ calc_and_update_fuser_level_percent
    \/ calc_and_update_reservoir_level_percent
    \/ calculate_all_levels
    \/ \E s \in Slots : calculate_level_percent(s)

SpecCalc == InitCalc /\ [][NextCalc]_vars

\* ---------------------------------------------------------------- driver registry

UpperCase ==
    <<"A", "B", "C", "D", "E", "F", "G", "H", "I", "J", "K", "L", "M",
      "N", "O", "P", "Q", "R", "S", "T", "U", "V", "W", "X", "Y", "Z">>

LowerCase ==
    <<"a", "b", "c", "d", "e", "f", "g", "h", "i", "j", "k", "l", "m",
      "n", "o", "p", "q", "r", "s", "t", "u", "v", "w", "x", "y", "z">>

to_lowercase_char(c) ==
    IF \E i \in 1..Len(UpperCase) : UpperCase[i] = c
    THEN LowerCase[CHOOSE i \in 1..Len(UpperCase) : UpperCase[i] = c]
    ELSE c

\* str::to_lowercase
to_lowercase(s) == [i \in 1..Len(s) |-> to_lowercase_char(s[i])]

\* str::contains
contains(s, pat) ==
    \E i \in 1..(Len(s) - Len(pat) + 1) : SubSeq(s, i, i + Len(pat) - 1) = pat

\* "brother"
BrotherMarker == <<"b", "r", "o", "t", "h", "e", "r">>

\* "HL-5350DN"
LegacyModel == <<"H", "L", "-", "5", "3", "5", "0", "D", "N">>

\* PrinterDriver::is_compatible of BrotherDriver and GenericDriver
is_compatible(driver, printer_name) ==
    IF driver = "Brother" THEN contains(to_lowercase(printer_name), BrotherMarker)
    ELSE TRUE

\* The registry with the catch-all registered first.
DriversGenericFirst == <<"Generic", "Brother">>

\* DriverManager::new: the registry, in registration order.
Drivers == <<"Brother", "Generic">>

\* A selection that takes the first registered driver without asking it.
get_driver_unasked(printer_name) ==
    IF Drivers = <<>> THEN None ELSE Some(Drivers[1])

\* DriverManager::get_driver: the first compatible driver of the registry.
get_driver(printer_name) ==
    IF \E i \in 1..Len(Drivers) : is_compatible(Drivers[i], printer_name)
    THEN Some(Drivers[CHOOSE i \in 1..Len(Drivers) :
                  /\ is_compatible(Drivers[i], printer_name)
                  /\ \A j \in 1..(i - 1) : ~is_compatible(Drivers[j], printer_name)])
    ELSE None

\* The registry's `select(device_name)`: the driver get_driver found, or the
\* unsupported-device error carrying the device name.
select(printer_name) ==
    IF get_driver(printer_name) = None
    THEN ErrWith("UnsupportedPrinter", printer_name)
    ELSE Ok(get_driver(printer_name).val)

\* str::split_whitespace().next(): the first whitespace-delimited word.
RECURSIVE first_word(_)
first_word(s) ==
    IF s = <<>> THEN None
    ELSE IF s[1] \in Whitespace THEN first_word(Tail(s))
    ELSE IF \E i \in 1..Len(s) : s[i] \in Whitespace
    THEN Some(SubSeq(s, 1, (CHOOSE i \in 1..Len(s) :
                               s[i] \in Whitespace /\ \A j \in 1..(i - 1) : s[j] \notin Whitespace) - 1))
    ELSE Some(s)

\* Device names the name fetch may return.
Names ==
    { <<"B", "r", "o", "t", "h", "e", "r", " ", "H", "L", "-", "5", "3", "5", "0", "D", "N">>,
      <<"B", "R", "O", "T", "H", "E", "R", " ", "X">>,
      <<"M", "y", " ", "b", "R", "o", "T", "H", "e", "r">>,
      <<"B", "r", "o", "t", "h", "e", " ", "r">>,
      <<"H", "P", " ", "M", "1">>,
      <<"H", "P", " ", "H", "L", "-", "5", "3", "5", "0", "D", "N">>,
      <<" ">>,
      <<>> }

\* ---------------------------------------------------------------- value retrieval

\* Wire values and replies the device is given to answer with.
WireValues ==
    { Integer(42), Integer(-7), Counter32(9), Timeticks(3), Counter64(U64Max),
      OctetString(<<"8", "7">>), OctetString(<<" ", "1", "2", " ">>),
      OctetString(<<"H", "P">>), OctetString(<<BadByte>>), Boolean(TRUE), Null }

\* error_status of a reply: 0 (noError) or 5 (genErr).
ErrorStatuses == {0, 5}

Replies ==
    [error_status : ErrorStatuses,
     varbinds : {<<>>} \cup {<<v>> : v \in WireValues}]

\* The two protocol failures get_snmp_value recovers from.
Recoverable == {"AuthUpdated", "EngineBootsNotProvided"}

\* Outcomes of session.init() under the timeout.
InitOutcomes == {"init_ok", "init_error", "init_timeout"}

\* A classification that looks at the values before the error status.
classify_response_values_first(T, response) ==
    IF response.varbinds = <<>> THEN Err("OidNotFound")
    ELSE IF response.error_status # 0 THEN ErrWith("SnmpRequest", response.error_status)
    ELSE from_snmp_value(T, response.varbinds[1])

\* How a received reply is turned into the call's result (value.rs 41-55).
classify_response(T, response) ==
    IF response.error_status # 0 THEN ErrWith("SnmpRequest", response.error_status)
    ELSE IF response.varbinds = <<>> THEN Err("OidNotFound")
    ELSE from_snmp_value(T, response.varbinds[1])

\* A loop that runs one iteration more than `retries`.
loop_has_next_inclusive(iter, retries) == iter <= retries

\* Whether the loop `for _ in 1..=ctx.retries` has an iteration left.
loop_has_next(iter, retries) == iter < retries

InitFetch ==
    /\ fRetries \in 0..MaxRetries
    /\ fType \in Types
    /\ fPc = "create"
    /\ fIter = 0
    /\ fLog = <<>>
    /\ fResult = None
    /\ fReply = None
    /\ CalcIdle
    /\ PollIdle
    /\ ParseIdle
    /\ SessionIdle
    /\ LoadIdle
    /\ ParIdle

\* A call that enters its loop although the session could not be built.
CreateSessionUnchecked ==
    /\ fPc = "create"
    /\ \E outcome \in {"ok", "SessionError", "OidConversion"} :
         /\ fLog' = IF outcome = "SessionError" THEN fLog ELSE Append(fLog, "session")
         /\ fPc' = IF outcome = "OidConversion" THEN "done" ELSE "loop"
         /\ fResult' = IF outcome = "OidConversion" THEN Some(Err(outcome)) ELSE fResult
    /\ UNCHANGED <<cvars, pvars, ovars, svars, lvars, qvars, fRetries, fType, fIter, fReply>>

\* create_snmp_session(ctx).await? and Oid::from(oid)?
CreateSession ==
    /\ fPc = "create"
    /\ \E outcome \in {"ok", "SessionError", "OidConversion"} :
         /\ fLog' = IF outcome = "SessionError" THEN fLog ELSE Append(fLog, "session")
         /\ fPc' = IF outcome = "ok" THEN "loop" ELSE "done"
         /\ fResult' = IF outcome = "ok" THEN fResult ELSE Some(Err(outcome))
    /\ UNCHANGED <<cvars, pvars, ovars, svars, lvars, qvars, fRetries, fType, fIter, fReply>>

\* One more iteration of the loop: session.get(&oid_obj) is issued.
SendQuery ==
    /\ fPc = "loop"
    /\ loop_has_next(fIter, fRetries)
    /\ fIter' = fIter + 1
    /\ fLog' = Append(fLog, "query")
    /\ fPc' = "await"
    /\ UNCHANGED <<cvars, pvars, ovars, svars, lvars, qvars, fRetries, fType, fResult, fReply>>

\* The loop is over: "Max retries exceeded or connection timed out".
Exhausted ==
    /\ fPc = "loop"
    /\ ~loop_has_next(fIter, fRetries)
    /\ fResult' = Some(Err("SnmpRequest"))
    /\ fLog' = Append(fLog, "exhausted")
    /\ fPc' = "done"
    /\ UNCHANGED <<cvars, pvars, ovars, svars, lvars, qvars, fRetries, fType, fIter, fReply>>

\* A timeout that ends the call at once instead of continuing the loop.
RecvTimeoutReturns ==
    /\ fPc = "await"
    /\ fLog' = Append(fLog, "timeout")
    /\ fResult' = Some(Err("Timeout"))
    /\ fPc' = "done"
    /\ UNCHANGED <<cvars, pvars, ovars, svars, lvars, qvars, fRetries, fType, fIter, fReply>>

\* Err(_) => continue
RecvTimeout ==
    /\ fPc = "await"
    /\ fLog' = Append(fLog, "timeout")
    /\ fPc' = "loop"
    /\ UNCHANGED <<cvars, pvars, ovars, svars, lvars, qvars, fRetries, fType, fIter, fResult, fReply>>

\* Ok(Err(AuthUpdated)) => continue
RecvAuthUpdated ==
    /\ fPc = "await"
    /\ fLog' = Append(fLog, "AuthUpdated")
    /\ fPc' = "loop"
    /\ UNCHANGED <<cvars, pvars, ovars, svars, lvars, qvars, fRetries, fType, fIter, fResult, fReply>>

\* Ok(Err(AuthFailure(EngineBootsNotProvided))): session.init() comes next.
RecvEngineBoots ==
    /\ fPc = "await"
    /\ fLog' = Append(fLog, "EngineBootsNotProvided")
    /\ fPc' = "reinit"
    /\ UNCHANGED <<cvars, pvars, ovars, svars, lvars, qvars, fRetries, fType, fIter, fResult, fReply>>

\* let _ = timeout(ctx.timeout, session.init()).await; continue
Reinit ==
    /\ fPc = "reinit"
    /\ \E outcome \in InitOutcomes : fLog' = Append(fLog, outcome)
    /\ fPc' = "loop"
    /\ UNCHANGED <<cvars, pvars, ovars, svars, lvars, qvars, fRetries, fType, fIter, fResult, fReply>>

\* A fatal protocol failure that is retried like a recoverable one.
RecvFatalContinues ==
    /\ fPc = "await"
    /\ fLog' = Append(fLog, "fatal")
    /\ fPc' = "loop"
    /\ UNCHANGED <<cvars, pvars, ovars, svars, lvars, qvars, fRetries, fType, fIter, fResult, fReply>>

\* Ok(Err(_)) => return Err(SnmpRequest(error.to_string()))
RecvFatal ==
    /\ fPc = "await"
    /\ fLog' = Append(fLog, "fatal")
    /\ fResult' = Some(Err("SnmpRequest"))
    /\ fPc' = "done"
    /\ UNCHANGED <<cvars, pvars, ovars, svars, lvars, qvars, fRetries, fType, fIter, fReply>>

\* Ok(Ok(response))
RecvReply ==
    /\ fPc = "await"
    /\ \E response \in Replies :
         /\ fLog' = Append(fLog, "reply")
         /\ fReply' = Some(response)
         /\ fResult' = Some(classify_response(fType, response))
    /\ fPc' = "done"
    /\ UNCHANGED <<cvars, pvars, ovars, svars, lvars, qvars, fRetries, fType, fIter>>

NextFetch ==
    \/ CreateSession
    \/ SendQuery
    \/ Exhausted
    \/ RecvTimeout
    \/ RecvAuthUpdated
    \/ RecvEngineBoots
    \/ Reinit
    \/ RecvFatal
    \/ RecvReply

SpecFetch == InitFetch /\ [][NextFetch]_vars

\* Every await of the call is bounded (by ctx.timeout, or by the session
\* factory's own timeouts), so a call that can take a step takes one.
SpecFetchLive == SpecFetch /\ WF_vars(NextFetch)

\* Number of occurrences of event e in a log.
RECURSIVE Count(_, _)
Count(log, e) ==
    IF log = <<>> THEN 0
    ELSE (IF log[1] = e THEN 1 ELSE 0) + Count(Tail(log), e)

\* ---------------------------------------------------------------- concurrent calls

\* Two get_snmp_value calls of two polls that run as parallel tasks.
Calls == {1, 2}

\* What the device answers to one query.
Answers == {"timeout", "AuthUpdated", "EngineBootsNotProvided", "fatal", "reply"}

\* The answers the device gives to the queries of one call, in order.
Scripts == {<<a, b>> : a \in Answers, b \in Answers}

\* A retry counter that all calls of the process count on.
iterations_used_shared(c) == qIter[1] + qIter[2]

\* The iterations of its loop the call has consumed: a local of the call.
iterations_used(c) == qIter[c]

InitPar ==
    /\ qRetries \in [Calls -> {1, 2}]
    /\ qScript \in [Calls -> Scripts]
    /\ qPc = [c \in Calls |-> "create"]
    /\ qIter = [c \in Calls |-> 0]
    /\ qSession = [c \in Calls |-> None]
    /\ qResult = [c \in Calls |-> None]
    /\ FetchIdle
    /\ CalcIdle
    /\ PollIdle
    /\ ParseIdle
    /\ SessionIdle
    /\ LoadIdle

\* `let mut session = create_snmp_session(ctx).await?`: the call's own session.
ParCreate(c) ==
    /\ qPc[c] = "create"
    /\ qSession' = [qSession EXCEPT ![c] = Some([owner |-> c, queries |-> 0])]
    /\ qPc' = [qPc EXCEPT ![c] = "loop"]
    /\ UNCHANGED <<qRetries, qScript, qIter, qResult>>
    /\ UNCHANGED <<fvars, cvars, pvars, ovars, svars, lvars>>

\* One request/response exchange of the call on its session, and the match on
\* what came back.
ParQuery(c) ==
    /\ qPc[c] = "loop"
    /\ loop_has_next(iterations_used(c), qRetries[c])
    /\ qIter' = [qIter EXCEPT ![c] = @ + 1]
    /\ qSession' = [qSession EXCEPT ![c] = Some([owner |-> c, queries |-> @.val.queries + 1])]
    /\ LET answer == qScript[c][qSession[c].val.queries + 1] IN
         CASE answer \in {"timeout", "AuthUpdated"} ->
                 qPc' = qPc /\ UNCHANGED qResult
           [] answer = "EngineBootsNotProvided" ->
                 qPc' = [qPc EXCEPT ![c] = "reinit"] /\ UNCHANGED qResult
           [] answer = "fatal" ->
                 /\ qPc' = [qPc EXCEPT ![c] = "done"]
                 /\ qResult' = [qResult EXCEPT ![c] = Some(ErrWith("SnmpRequest", "fatal"))]
           [] answer = "reply" ->
                 /\ qPc' = [qPc EXCEPT ![c] = "done"]
                 /\ qResult' = [qResult EXCEPT ![c] = Some(Ok("value"))]
    /\ UNCHANGED <<qRetries, qScript>>
    /\ UNCHANGED <<fvars, cvars, pvars, ovars, svars, lvars>>

\* `let _ = timeout(ctx.timeout, session.init()).await; continue`
ParReinit(c) ==
    /\ qPc[c] = "reinit"
    /\ qPc' = [qPc EXCEPT ![c] = "loop"]
    /\ UNCHANGED <<qRetries, qScript, qIter, qSession, qResult>>
    /\ UNCHANGED <<fvars, cvars, pvars, ovars, svars, lvars>>

\* The loop is over: "Max retries exceeded or connection timed out".
ParExhausted(c) ==
    /\ qPc[c] = "loop"
    /\ ~loop_has_next(iterations_used(c), qRetries[c])
    /\ qPc' = [qPc EXCEPT ![c] = "done"]
    /\ qResult' = [qResult EXCEPT ![c] = Some(ErrWith("SnmpRequest", "Max retries exceeded"))]
    /\ UNCHANGED <<qRetries, qScript, qIter, qSession>>
    /\ UNCHANGED <<fvars, cvars, pvars, ovars, svars, lvars>>

NextPar ==
    \/ \E c \in Calls : ParCreate(c)
    \/ \E c \in Calls : ParQuery(c)
    \/ \E c \in Calls : ParReinit(c)
    \/ \E c \in Calls : ParExhausted(c)

SpecPar == InitPar /\ [][NextPar]_vars

\* ---------------------------------------------------------------- mapping document

\* A value of the mapping document behind one key path: no such key, a value
\* that is not a string, or a string.
EntryAbsent == [kind |-> "absent", s |-> <<>>]

EntryNumber == [kind |-> "number", s |-> <<>>]

EntryString(s) == [kind |-> "string", s |-> s]

\* "1.3.6"
ValidOid == <<"1", ".", "3", ".", "6">>

\* "1.a"
BadOid == <<"1", ".", "a">>

Entries ==
    {EntryAbsent, EntryNumber, EntryString(<<>>), EntryString(ValidOid), EntryString(BadOid)}

\* A document that maps every key to an OID.
FullDoc == [k \in Keys |-> EntryString(ValidOid)]

\* A document that maps every key to the empty string.
EmptyDoc == [k \in Keys |-> EntryString(<<>>)]

\* A document of a device with toners only.
TonerDoc ==
    [k \in Keys |-> IF k \in Range(TonerKeys) THEN EntryString(ValidOid) ELSE EntryString(<<>>)]

\* The documents load_printer may return: the three above, and FullDoc with
\* one key changed to any entry.
Docs == {[FullDoc EXCEPT ![k] = e] : k \in Keys, e \in Entries} \cup {EmptyDoc, TonerDoc}

\* The errors load_printer may return.
LoadErrors == {"UnsupportedPrinter", "InvalidDirectory", "DirectoryReadError"}

\* A lookup that takes a key without a string value for an unmapped supply.
get_supply_oid_lenient(doc, key) ==
    IF doc[key].kind # "string" THEN Ok(<<>>) ELSE parse_oid_to_vec(doc[key].s)

\* The closure get_supply_oid of GenericDriver::get_supplies.
get_supply_oid(doc, key) ==
    IF doc[key].kind # "string" THEN Err("OidNotFound") ELSE parse_oid_to_vec(doc[key].s)

\* `get_supply_oid(..)?` over `keys` in order: the first error, if any.
lookup_fails(doc, keys) == \E i \in 1..Len(keys) : get_supply_oid(doc, keys[i]).tag = "Err"

lookup_error(doc, keys) ==
    get_supply_oid(doc, keys[CHOOSE i \in 1..Len(keys) :
        /\ get_supply_oid(doc, keys[i]).tag = "Err"
        /\ \A j \in 1..(i - 1) : get_supply_oid(doc, keys[j]).tag = "Ok"])

\* The *_oid locals after the lookups of `keys` succeeded.
with_oids(oids, doc, keys) ==
    [k \in Keys |-> IF k \in Range(keys) THEN get_supply_oid(doc, k).val ELSE oids[k]]

\* ---------------------------------------------------------------- loading the mapping document

\* A file of the data directory: its stem, its extension, and whether it can
\* be read, parses as JSON and, if so, the device names it has an entry for.
File(stem, ext, body, models) == [stem |-> stem, ext |-> ext, body |-> body, models |-> models]

\* The entry of `model` in the JSON file `stem`.json.
Mapping(stem, model) == [file |-> stem, model |-> model]

Files ==
    { File(stem, ext, body.b, body.m) :
        stem \in {<<"h", "p">>, <<"H", "P">>, <<"x">>},
        ext \in {"json", "JSON", "txt"},
        body \in { [b |-> "unreadable", m |-> {}], [b |-> "malformed", m |-> {}],
                   [b |-> "json", m |-> {}], [b |-> "json", m |-> {"HP M1"}] } }

\* The entries read_dir yields, in its order: no two of them have the same name.
Listings ==
    {<<>>} \cup {<<f>> : f \in Files}
           \cup {l \in Files \X Files : l[1].stem # l[2].stem \/ l[1].ext # l[2].ext}

\* INTERNAL_DATA_DIR: the documents compiled into the binary.
InternalDataDir == <<File(<<"h", "p">>, "json", "json", {"HP M1"})>>

\* data_dir: None, or a path that is not a directory, cannot be read, or lists files.
DataDirs ==
    {None, Some([kind |-> "not_a_directory", files |-> <<>>]),
           Some([kind |-> "unreadable", files |-> <<>>])}
       \cup {Some([kind |-> "directory", files |-> l]) : l \in Listings}

\* A search that compares the stem with the lowered brand as it is written.
find_file_exact_stem(files, brand_lower) ==
    IF \E i \in 1..Len(files) : files[i].ext = "json" /\ files[i].stem = brand_lower
    THEN CHOOSE i \in 1..Len(files) :
            /\ files[i].ext = "json" /\ files[i].stem = brand_lower
            /\ \A j \in 1..(i - 1) : ~(files[j].ext = "json" /\ files[j].stem = brand_lower)
    ELSE 0

\* `.find(..)`: the first entry with extension "json" whose lowered stem is
\* the lowered brand; 0 when there is none.
find_file(files, brand_lower) ==
    IF \E i \in 1..Len(files) :
          files[i].ext = "json" /\ to_lowercase(files[i].stem) = brand_lower
    THEN CHOOSE i \in 1..Len(files) :
            /\ files[i].ext = "json" /\ to_lowercase(files[i].stem) = brand_lower
            /\ \A j \in 1..(i - 1) :
                  ~(files[j].ext = "json" /\ to_lowercase(files[j].stem) = brand_lower)
    ELSE 0

\* The chain find / read / from_str / get(model) / ok_or_else.
load_from(files, brand_lower, model) ==
    LET i == find_file(files, brand_lower) IN
    IF i = 0 THEN ErrWith("UnsupportedPrinter", model)
    ELSE IF files[i].body # "json" THEN ErrWith("UnsupportedPrinter", model)
    ELSE IF model \notin files[i].models THEN ErrWith("UnsupportedPrinter", model)
    ELSE Ok(Mapping(files[i].stem, model))

load_printer(brand, model, data_dir) ==
    IF data_dir = None THEN load_from(InternalDataDir, to_lowercase(brand), model)
    ELSE IF data_dir.val.kind = "not_a_directory" THEN Err("InvalidDirectory")
    ELSE IF data_dir.val.kind = "unreadable" THEN Err("DirectoryReadError")
    ELSE load_from(data_dir.val.files, to_lowercase(brand), model)

InitLoad ==
    /\ lBrand \in {<<"H", "P">>, <<"h", "p">>}
    /\ lModel \in {"HP M1", "HP M2"}
    /\ lDir \in DataDirs
    /\ lResult = None
    /\ FetchIdle
    /\ CalcIdle
    /\ PollIdle
    /\ ParseIdle
    /\ SessionIdle
    /\ ParIdle

LoadPrinter ==
    /\ lResult = None
    /\ lResult' = Some(load_printer(lBrand, lModel, lDir))
    /\ UNCHANGED <<lBrand, lModel, lDir>>
    /\ UNCHANGED <<fvars, cvars, pvars, ovars, svars, qvars>>

NextLoad == LoadPrinter

SpecLoad == InitLoad /\ [][NextLoad]_vars

\* ---------------------------------------------------------------- the poll

\* hrDeviceDescr.1, the OID get_printer_name reads.
NameOid == <<1, 3, 6, 1, 2, 1, 25, 3, 2, 1, 3, 1>>

NameKey == <<"name", "", "">>

\* The errors get_snmp_value may return to a driver.
FetchErrors == {"SnmpRequest", "OidNotFound"}

FetchOutcomes == {"ok"} \cup FetchErrors

\* One get_snmp_value call of the poll and its outcome.
Fetched(key, oid, res) == [key |-> key, oid |-> oid, res |-> res]

\* What the device reports for the level and the max_level of every supply.
Devices == {[level |-> 300, max_level |-> 1000], [level |-> 5, max_level |-> 0]}

\* The serial number the device reports.
SerialValue == <<"X", "1">>

\* Printer::new
Printer(name, serial_number, supplies) ==
    [name |-> name, serial_number |-> serial_number, supplies |-> supplies]

InitPoll ==
    /\ pPc = "name"
    /\ pExtra \in BOOLEAN
    /\ pDevice \in Devices
    /\ pName = <<>>
    /\ pDriver = None
    /\ pDoc = None
    /\ pOids = [k \in Keys |-> <<>>]
    /\ pValues = [k \in Keys |-> 0]
    /\ pSerial = None
    /\ pBlob = <<>>
    /\ pIdx = 0
    /\ pLog = <<>>
    /\ pResult = None
    /\ FetchIdle
    /\ CalcIdle
    /\ ParseIdle
    /\ SessionIdle
    /\ LoadIdle
    /\ ParIdle

\* The poll returns `result`.
Return(result) ==
    /\ pPc' = "done"
    /\ pResult' = Some(result)

\* get_printer_name: the device name, or the error of the fetch.
FetchName ==
    /\ pPc = "name"
    /\ \/ \E name \in Names :
            /\ pName' = name
            /\ pLog' = Append(pLog, Fetched(NameKey, NameOid, "ok"))
            /\ pPc' = "select"
            /\ UNCHANGED pResult
       \/ \E e \in FetchErrors :
            /\ pLog' = Append(pLog, Fetched(NameKey, NameOid, e))
            /\ Return(Err(e))
            /\ UNCHANGED pName
    /\ UNCHANGED <<pBlob, pExtra, pDevice, pDriver, pDoc, pOids, pValues, pSerial, pIdx>>
    /\ UNCHANGED <<fvars, cvars, ovars, svars, lvars, qvars>>

\* The driver for the name is looked up in the registry.
SelectDriver ==
    /\ pPc = "select"
    /\ pDriver' = get_driver(pName)
    /\ IF select(pName).tag = "Err"
       THEN Return(select(pName))
       ELSE /\ pPc' = IF select(pName).val = "Brother" THEN "brother" ELSE "generic"
            /\ UNCHANGED pResult
    /\ UNCHANGED <<pBlob, pExtra, pDevice, pName, pDoc, pOids, pValues, pSerial, pIdx, pLog>>
    /\ UNCHANGED <<fvars, cvars, ovars, svars, lvars, qvars>>

\* ---------------------------------------------------------------- the Generic driver

\* The keys looked up before anything is fetched.
StartKeys == <<SerialKey>> \o TonerKeys

\* A driver that takes the extra-supplies block whatever the flag says.
after_toner_lookups_always_extra(extra_supplies) == "generic_extra"

\* `if params.extra_supplies { .. }`: where the driver goes after the toner lookups.
after_toner_lookups(extra_supplies) ==
    IF extra_supplies THEN "generic_extra" ELSE "generic_values"

\* `!level_oid.is_empty() && !max_level_oid.is_empty()`
has_both_oids(oids, slot) ==
    oids[slot_key(slot, "level")] # <<>> /\ oids[slot_key(slot, "max_level")] # <<>>

\* The slots of `slots` whose two OIDs are mapped, in order.
RECURSIVE mapped_slots(_, _)
mapped_slots(slots, oids) ==
    IF slots = <<>> THEN <<>>
    ELSE (IF has_both_oids(oids, slots[1]) THEN <<slots[1]>> ELSE <<>>)
         \o mapped_slots(Tail(slots), oids)

\* A driver that reads the drums before the toners.
value_plan_drums_first(oids) ==
    slot_keys(mapped_slots(DrumSlots \o TonerSlots \o FuserSlots \o ReservoirSlots, oids))

\* The level / max_level fetches of the driver, in the order it issues them.
value_plan(oids) == slot_keys(mapped_slots(SlotOrder, oids))

\* What the device answers to the fetch behind `key`.
device_value(device, key) == IF key[3] = "level" THEN device.level ELSE device.max_level

\* The supply slots built from the fetched values.
generic_supplies(oids, values) ==
    [s \in Slots |->
        IF has_both_oids(oids, s)
        THEN Some(Reading(values[slot_key(s, "level")], values[slot_key(s, "max_level")], None))
        ELSE None]

\* Brand, mapping document and the serial-number and toner OID lookups.
GenericStart ==
    /\ pPc = "generic"
    /\ IF first_word(pName) = None
       THEN /\ Return(Err("ParseError"))
            /\ UNCHANGED <<pDoc, pOids, pSerial>>
       ELSE \/ \E e \in LoadErrors :
                 /\ Return(Err(e))
                 /\ UNCHANGED <<pDoc, pOids, pSerial>>
            \/ \E doc \in Docs :
                 /\ pDoc' = Some(doc)
                 /\ IF lookup_fails(doc, StartKeys)
                    THEN /\ Return(lookup_error(doc, StartKeys))
                         /\ UNCHANGED <<pOids, pSerial>>
                    ELSE /\ pOids' = with_oids(pOids, doc, StartKeys)
                         /\ pSerial' = Some(<<>>)
                         /\ pPc' = after_toner_lookups(pExtra)
                         /\ UNCHANGED pResult
    /\ UNCHANGED <<pBlob, pExtra, pDevice, pName, pDriver, pValues, pIdx, pLog>>
    /\ UNCHANGED <<fvars, cvars, ovars, svars, lvars, qvars>>

\* The extra-supplies block: the serial number is fetched if it is mapped, then
\* the drum, fuser and reservoir OIDs are looked up.
GenericExtra ==
    /\ pPc = "generic_extra"
    /\ \E res \in FetchOutcomes :
         LET mapped == pOids[SerialKey] # <<>>
         IN /\ ~mapped => res = "ok"
            /\ pLog' = IF mapped
                       THEN Append(pLog, Fetched(SerialKey, pOids[SerialKey], res))
                       ELSE pLog
            /\ IF res # "ok"
               THEN /\ Return(Err(res))
                    /\ UNCHANGED <<pOids, pSerial>>
               ELSE /\ pSerial' = IF mapped THEN Some(SerialValue) ELSE None
                    /\ IF lookup_fails(pDoc.val, ExtraKeys)
                       THEN /\ Return(lookup_error(pDoc.val, ExtraKeys))
                            /\ UNCHANGED pOids
                       ELSE /\ pOids' = with_oids(pOids, pDoc.val, ExtraKeys)
                            /\ pPc' = "generic_values"
                            /\ UNCHANGED pResult
    /\ UNCHANGED <<pBlob, pExtra, pDevice, pName, pDriver, pDoc, pValues, pIdx>>
    /\ UNCHANGED <<fvars, cvars, ovars, svars, lvars, qvars>>

\* A driver that carries on with 0 when a level / max_level fetch fails.
GenericValueSwallowsFailure ==
    /\ pPc = "generic_values"
    /\ pIdx < Len(value_plan(pOids))
    /\ \E res \in FetchOutcomes :
         LET key == value_plan(pOids)[pIdx + 1]
         IN /\ pLog' = Append(pLog, Fetched(key, pOids[key], res))
            /\ pValues' = [pValues EXCEPT ![key] =
                              IF res = "ok" THEN device_value(pDevice, key) ELSE 0]
            /\ pIdx' = pIdx + 1
            /\ UNCHANGED <<pPc, pResult>>
    /\ UNCHANGED <<pBlob, pExtra, pDevice, pName, pDriver, pDoc, pOids, pSerial>>
    /\ UNCHANGED <<fvars, cvars, ovars, svars, lvars, qvars>>

\* The next `get_snmp_value(..)?` of the level / max_level fetches.
GenericValue ==
    /\ pPc = "generic_values"
    /\ pIdx < Len(value_plan(pOids))
    /\ \E res \in FetchOutcomes :
         LET key == value_plan(pOids)[pIdx + 1]
         IN /\ pLog' = Append(pLog, Fetched(key, pOids[key], res))
            /\ IF res = "ok"
               THEN /\ pValues' = [pValues EXCEPT ![key] = device_value(pDevice, key)]
                    /\ pIdx' = pIdx + 1
                    /\ UNCHANGED <<pPc, pResult>>
               ELSE /\ Return(Err(res))
                    /\ UNCHANGED <<pValues, pIdx>>
    /\ UNCHANGED <<pBlob, pExtra, pDevice, pName, pDriver, pDoc, pOids, pSerial>>
    /\ UNCHANGED <<fvars, cvars, ovars, svars, lvars, qvars>>

\* Printer::new, the four calc_and_update_*_level_percent calls, Ok(printer).
GenericFinish ==
    /\ pPc = "generic_values"
    /\ pIdx = Len(value_plan(pOids))
    /\ LET supplies == calc_group(generic_supplies(pOids, pValues), cBuild, SlotOrder)
       IN IF supplies = Panic
          THEN Return(Panic)
          ELSE Return(Ok(Printer(pName, pSerial, supplies)))
    /\ UNCHANGED <<pBlob, pExtra, pDevice, pName, pDriver, pDoc, pOids, pValues, pSerial, pIdx, pLog>>
    /\ UNCHANGED <<fvars, cvars, ovars, svars, lvars, qvars>>

\* ---------------------------------------------------------------- the Brother driver

BLACK_TONER_CODE == 111

CYAN_TONER_CODE == 112

MAGENTA_TONER_CODE == 113

YELLOW_TONER_CODE == 114

BLACK_DRUM_CODE == 65

CYAN_DRUM_CODE == 121

MAGENTA_DRUM_CODE == 122

YELLOW_DRUM_CODE == 123

FUSER_CODE == 106

\* The code the driver scans for to fill `slot`.
brother_code(slot) ==
    CASE slot = "black_toner" -> BLACK_TONER_CODE
      [] slot = "cyan_toner" -> CYAN_TONER_CODE
      [] slot = "magenta_toner" -> MAGENTA_TONER_CODE
      [] slot = "yellow_toner" -> YELLOW_TONER_CODE
      [] slot = "black_drum" -> BLACK_DRUM_CODE
      [] slot = "cyan_drum" -> CYAN_DRUM_CODE
      [] slot = "magenta_drum" -> MAGENTA_DRUM_CODE
      [] slot = "yellow_drum" -> YELLOW_DRUM_CODE
      [] slot = "fuser" -> FUSER_CODE

\* u32::from_be_bytes
from_be_bytes(b) == ((b[1] * 256 + b[2]) * 256 + b[3]) * 256 + b[4]

\* The exponent of the binade of n >= 1: 2^e <= n < 2^(e+1).
Log2Floor(n) == CHOOSE e \in 0..30 : Pow2(e) <= n /\ (e = 30 \/ n < Pow2(e + 1))

\* The multiple of u nearest to n, a tie going to the even multiple
\* (round-to-nearest-even on a grid of spacing u).
round_to_even(n, u) ==
    LET base == n - (n % u)
    IN IF 2 * (n % u) < u THEN base
       ELSE IF 2 * (n % u) > u THEN base + u
       ELSE IF (base \div u) % 2 = 0 THEN base ELSE base + u

\* `value as f32`: 24 bits of significand, so exact below 2^24 and rounded
\* to the grid of the binade above it.
as_f32(value) ==
    IF value < Pow2(24) THEN value
    ELSE round_to_even(value, Pow2(Log2Floor(value) - 23))

\* `(x / 100.0) as i64` for an integral f32 x: the quotient rounded to f32,
\* then truncated.  With k = x div 100 and r = x mod 100 the quotient is
\* k + r/100; below 2^23 the f32 grid has spacing 1/S and the rounded
\* quotient reaches k + 1 iff 1 - r/100 <= 1/(2S); from 2^23 on the grid has
\* an integral spacing u.
div_100_as_i64(x) ==
    LET k == x \div 100
        r == x % 100
    IN IF k = 0 THEN 0
       ELSE IF k < Pow2(23)
       THEN IF r > 0 /\ 2 * Pow2(23 - Log2Floor(k)) * (100 - r) <= 100
            THEN k + 1 ELSE k
       ELSE LET u == Pow2(Log2Floor(k) - 23)
                base == k - (k % u)
                d100 == (k % u) * 100 + r
            IN IF d100 < u * 50 THEN base
               ELSE IF d100 > u * 50 THEN base + u
               ELSE IF (base \div u) % 2 = 0 THEN base ELSE base + u

\* `(value as f32 / 100.0) as i64`
percent_of(value) == div_100_as_i64(as_f32(value))

find_value_in_brother_bytes(bytes, toner_code) ==
    IF \E p \in 1..(Len(bytes) - 2) : SubSeq(bytes, p, p + 2) = <<toner_code, 1, 4>>
    THEN LET pos == CHOOSE p \in 1..(Len(bytes) - 2) :
                        /\ SubSeq(bytes, p, p + 2) = <<toner_code, 1, 4>>
                        /\ \A q \in 1..(p - 1) : SubSeq(bytes, q, q + 2) # <<toner_code, 1, 4>>
         IN IF pos + 6 <= Len(bytes)
            THEN Some(percent_of(from_be_bytes(SubSeq(bytes, pos + 3, pos + 6))))
            ELSE None
    ELSE None

\* The maintenance blobs the device may answer with.
Blobs ==
    { <<>>,
      <<111, 1, 4, 0, 0, 33, 252>>,
      <<111, 1, 4, 0, 0>>,
      <<112, 1, 4, 111, 1, 4, 0, 0, 0, 250, 111, 1, 4, 0, 0, 39, 16>>,
      <<9, 111, 1, 4, 1, 0, 0, 83, 106, 1, 4, 0, 255, 255, 255, 113, 1, 4, 127, 255, 255, 0>>,
      <<65, 1, 4, 0, 0, 39, 16, 106, 1, 4, 0, 0, 0, 99, 112, 1, 4, 0, 0, 19, 136>> }

BrotherSerialKey == <<"brother", "", "serial_number">>

BrotherBlobKey == <<"brother", "", "maintenance">>

\* prtGeneralSerialNumber.1
BrotherSerialOid == <<1, 3, 6, 1, 2, 1, 43, 5, 1, 1, 17, 1>>

\* A driver that reads brInfoMaintenance on every model.
br_info_maintenance_oid_never_legacy(printer_name) ==
    <<1, 3, 6, 1, 4, 1, 2435, 2, 3, 9, 4, 2, 1, 5, 5, 8, 0>>

\* br_info_maintenance_oid: brInfoNextCare on the HL-5350DN, brInfoMaintenance otherwise.
br_info_maintenance_oid(printer_name) ==
    IF contains(printer_name, LegacyModel)
    THEN <<1, 3, 6, 1, 4, 1, 2435, 2, 3, 9, 4, 2, 1, 5, 5, 11, 0>>
    ELSE <<1, 3, 6, 1, 4, 1, 2435, 2, 3, 9, 4, 2, 1, 5, 5, 8, 0>>

\* A driver that reports the scanned percent as a level out of 100.
brother_supplies_as_level(bytes) ==
    [s \in Slots |->
        IF s = "reservoir" \/ find_value_in_brother_bytes(bytes, brother_code(s)) = None
        THEN None
        ELSE Some(Reading(find_value_in_brother_bytes(bytes, brother_code(s)).val, 100, None))]

\* A driver that scans the drum codes only when extra supplies are enabled.
brother_supplies_drums_if_extra(bytes) ==
    [s \in Slots |->
        IF \/ s = "reservoir"
           \/ (s \in Range(DrumSlots) /\ ~pExtra)
           \/ find_value_in_brother_bytes(bytes, brother_code(s)) = None
        THEN None
        ELSE Some(Reading(0, 0, find_value_in_brother_bytes(bytes, brother_code(s))))]

\* The supply slots scraped from the blob; the driver fills no reservoir.
brother_supplies(bytes) ==
    [s \in Slots |->
        IF s = "reservoir" \/ find_value_in_brother_bytes(bytes, brother_code(s)) = None
        THEN None
        ELSE Some(Reading(0, 0, find_value_in_brother_bytes(bytes, brother_code(s))))]

\* `let serial_number = Some(get_snmp_value(serial_number_oid, ctx)?);`
BrotherSerial ==
    /\ pPc = "brother"
    /\ \E res \in FetchOutcomes :
         /\ pLog' = Append(pLog, Fetched(BrotherSerialKey, BrotherSerialOid, res))
         /\ IF res = "ok"
            THEN /\ pSerial' = Some(SerialValue)
                 /\ pPc' = "brother_blob"
                 /\ UNCHANGED pResult
            ELSE /\ Return(Err(res))
                 /\ UNCHANGED pSerial
    /\ UNCHANGED <<pBlob, pExtra, pDevice, pName, pDriver, pDoc, pOids, pValues, pIdx>>
    /\ UNCHANGED <<fvars, cvars, ovars, svars, lvars, qvars>>

\* The blob fetch, the scan for every code, Ok(Printer::new(..)).
BrotherBlob ==
    /\ pPc = "brother_blob"
    /\ \/ \E bytes \in Blobs :
            /\ pBlob' = bytes
            /\ pLog' = Append(pLog, Fetched(BrotherBlobKey, br_info_maintenance_oid(pName), "ok"))
            /\ Return(Ok(Printer(pName, pSerial, brother_supplies(bytes))))
       \/ \E e \in FetchErrors :
            /\ pLog' = Append(pLog, Fetched(BrotherBlobKey, br_info_maintenance_oid(pName), e))
            /\ Return(Err(e))
            /\ UNCHANGED pBlob
    /\ UNCHANGED <<pExtra, pDevice, pName, pDriver, pDoc, pOids, pValues, pSerial, pIdx>>
    /\ UNCHANGED <<fvars, cvars, ovars, svars, lvars, qvars>>

NextPoll ==
    \/ FetchName
    \/ SelectDriver
    \/ GenericStart
    \/ GenericExtra
    \/ GenericValue
    \/ GenericFinish
    \/ BrotherSerial
    \/ BrotherBlob

SpecPoll == InitPoll /\ [][NextPoll]_vars

\* ---------------------------------------------------------------- OID parsing

\* The pieces OID strings are written from: numbers, with leading zeros, with
\* a sign, at and above u64::MAX, and pieces that are no numbers.
OidSegments ==
    { <<>>, <<"0">>, <<"1">>, <<"3">>, <<"2", "5">>, <<"0", "0", "7">>,
      <<"+", "3">>, <<"-", "1">>, <<"+">>, <<"a">>, <<" ", "1">>,
      NatToString(U64Max), NatToString(U64Max + 1) }

\* "1.3.6.1.2.1.25.3.2.1.3.1" and "1.3.a.1", piece by piece.
ExampleOids ==
    { << <<"1">>, <<"3">>, <<"6">>, <<"1">>, <<"2">>, <<"1">>, <<"2", "5">>,
         <<"3">>, <<"2">>, <<"1">>, <<"3">>, <<"1">> >>,
      << <<"1">>, <<"3">>, <<"a">>, <<"1">> >> }

\* The pieces written one after the other with a dot between them.
RECURSIVE join_dots(_)
join_dots(segs) ==
    IF Len(segs) = 1 THEN segs[1]
    ELSE segs[1] \o <<".">> \o join_dots(Tail(segs))

InitParse ==
    /\ oSegments \in ExampleOids \cup UNION {[1..n -> OidSegments] : n \in 1..MaxSegments}
    /\ oInput = join_dots(oSegments)
    /\ oResult = None
    /\ FetchIdle
    /\ CalcIdle
    /\ PollIdle
    /\ SessionIdle
    /\ LoadIdle
    /\ ParIdle

\* parse_oid_to_vec(oid)
ParseOid ==
    /\ oResult = None
    /\ oResult' = Some(parse_oid_to_vec(oInput))
    /\ UNCHANGED <<oSegments, oInput>>
    /\ UNCHANGED <<fvars, cvars, pvars, svars, lvars, qvars>>

NextParse == ParseOid

SpecParse == InitParse /\ [][NextParse]_vars

\* ---------------------------------------------------------------- engine discovery

\* The tag of the identifier field the reply is scanned for (an octet string).
IdentifierTag == 4

\* An identifier must be longer than this many bytes.
MinIdentifierLen == 4

\* The high bit of a byte.
HighBit == 128

\* A candidate identifier stands at position i of the reply: the tag, the
\* declared length, and that many bytes after it.
candidate_at(reply, i) ==
    /\ reply[i] = IdentifierTag
    /\ i + 1 <= Len(reply)
    /\ i + 1 + reply[i + 1] <= Len(reply)

\* The bytes of the candidate at position i.
identifier_at(reply, i) == SubSeq(reply, i + 2, i + 1 + reply[i + 1])

\* The validity check of a candidate.
is_valid_identifier(id) == Len(id) > MinIdentifierLen /\ id[1] >= HighBit

\* A scan that takes the first candidate without the validity check.
RECURSIVE scan_from_unchecked(_, _)
scan_from_unchecked(reply, i) ==
    IF i > Len(reply) THEN None
    ELSE IF candidate_at(reply, i) THEN Some(identifier_at(reply, i))
    ELSE scan_from_unchecked(reply, i + 1)

\* The byte-by-byte scan of the reply from position i on: the first valid
\* candidate; a candidate that fails the check is passed over.
RECURSIVE scan_from(_, _)
scan_from(reply, i) ==
    IF i > Len(reply) THEN None
    ELSE IF candidate_at(reply, i) /\ is_valid_identifier(identifier_at(reply, i))
    THEN Some(identifier_at(reply, i))
    ELSE scan_from(reply, i + 1)

\* A discovery that lets a silent device pass with an empty identifier.
discover_engine_ignoring_timeout(reply) ==
    IF reply = None THEN Ok(<<>>)
    ELSE IF scan_from(reply.val, 1) = None THEN Err("Protocol")
    ELSE Ok(scan_from(reply.val, 1).val)

\* Engine Discovery on what came back for the probe: a reply, or None when
\* the receive timeout passed.
discover_engine(reply) ==
    IF reply = None THEN Err("Protocol")
    ELSE IF scan_from(reply.val, 1) = None THEN Err("Protocol")
    ELSE Ok(scan_from(reply.val, 1).val)

\* Replies to the probe.
DiscoveryReplies ==
    { <<>>,
      <<48, 3, 2, 1, 0>>,
      <<48, 9, 4, 5, 128, 0, 31, 136, 4>>,
      <<4, 2, 200, 1, 4, 5, 129, 1, 2, 3, 4>>,
      <<4, 5, 1, 2, 3, 4, 5, 4, 6, 255, 0, 0, 0, 0, 1>>,
      <<4, 4, 128, 1, 2, 3>>,
      <<4, 5, 128, 1, 1, 1, 1, 4, 5, 129, 2, 2, 2, 2>>,
      <<4, 9, 128, 1, 2>> }

\* ---------------------------------------------------------------- session factory

Versions == {"V1", "V2c", "V3"}

SecurityLevels == {"NoAuthNoPriv", "AuthNoPriv", "AuthPriv"}

\* Usernames and secrets the caller may hand over.
Usernames == {None, Some(<<>>), Some(<<"u">>)}

Secrets == {None, Some(<<"p", "w">>)}

\* A session in one of the terminal states PlainV1, PlainV2c, SecureV3.
Session(state, level, engine) == [state |-> state, level |-> level, engine |-> engine]

\* A factory that asks for no privacy secret.
missing_credential_but_privacy(params) ==
    \/ params.username = None
    \/ params.username = Some(<<>>)
    \/ params.level \in {"AuthNoPriv", "AuthPriv"} /\ params.auth = None

\* The credential the requested security level needs and the caller left out.
missing_credential(params) ==
    \/ params.username = None
    \/ params.username = Some(<<>>)
    \/ params.level \in {"AuthNoPriv", "AuthPriv"} /\ params.auth = None
    \/ params.level = "AuthPriv" /\ params.priv = None

InitSession ==
    /\ sParams \in [version : Versions, level : SecurityLevels,
                     username : Usernames, auth : Secrets, priv : Secrets]
    /\ sPc = "unconfigured"
    /\ sLog = <<>>
    /\ sReply = None
    /\ sEngine = None
    /\ sResult = None
    /\ FetchIdle
    /\ CalcIdle
    /\ PollIdle
    /\ ParseIdle
    /\ LoadIdle
    /\ ParIdle

\* V1 / V2c: the session is built from address, community and timeout.
BuildPlain ==
    /\ sPc = "unconfigured"
    /\ sParams.version \in {"V1", "V2c"}
    /\ sResult' = Some(Ok(Session(IF sParams.version = "V1" THEN "PlainV1" ELSE "PlainV2c",
                                  None, None)))
    /\ sPc' = "done"
    /\ UNCHANGED <<sParams, sLog, sReply, sEngine>>
    /\ UNCHANGED <<fvars, cvars, pvars, ovars, lvars, qvars>>

\* V3: the username and the secrets of the security level are validated.
ValidateV3 ==
    /\ sPc = "unconfigured"
    /\ sParams.version = "V3"
    /\ IF missing_credential(sParams)
       THEN sResult' = Some(Err("Config")) /\ sPc' = "done"
       ELSE sPc' = "discover" /\ UNCHANGED sResult
    /\ UNCHANGED <<sParams, sLog, sReply, sEngine>>
    /\ UNCHANGED <<fvars, cvars, pvars, ovars, lvars, qvars>>

\* Engine Discovery: the probe is sent and the reply, if one arrives within
\* the receive timeout, is scanned for the identifier.
EngineDiscovery ==
    /\ sPc = "discover"
    /\ sLog' = Append(sLog, "probe")
    /\ \E reply \in {None} \cup {Some(r) : r \in DiscoveryReplies} :
         /\ sReply' = reply
         /\ IF discover_engine(reply).tag = "Err"
            THEN /\ sResult' = Some(discover_engine(reply))
                 /\ sPc' = "done"
                 /\ UNCHANGED sEngine
            ELSE /\ sEngine' = Some(discover_engine(reply).val)
                 /\ sPc' = "finalize"
                 /\ UNCHANGED sResult
    /\ UNCHANGED sParams
    /\ UNCHANGED <<fvars, cvars, pvars, ovars, lvars, qvars>>

\* The identifier is bound into the security context and the session is final.
FinalizeV3 ==
    /\ sPc = "finalize"
    /\ sResult' = Some(Ok(Session("SecureV3", sParams.level, sEngine)))
    /\ sPc' = "done"
    /\ UNCHANGED <<sParams, sLog, sReply, sEngine>>
    /\ UNCHANGED <<fvars, cvars, pvars, ovars, lvars, qvars>>

NextSession ==
    \/ BuildPlain
    \/ ValidateV3
    \/ EngineDiscovery
    \/ FinalizeV3

SpecSession == InitSession /\ [][NextSession]_vars

\* ---------------------------------------------------------------- claims on value retrieval

\* The call got as far as its retry loop (session built, OID converted).
ReachedLoop ==
    \/ fPc \in {"loop", "await", "reinit"}
    \/ fPc = "done" /\ Count(fLog, "query") + Count(fLog, "exhausted") > 0

\* Every attempt of the finished call ended in a network-level timeout.
AllAttemptsTimedOut ==
    /\ fPc = "done"
    /\ ReachedLoop
    /\ \A i \in 1..Len(fLog) : fLog[i] \in {"session", "query", "timeout", "exhausted"}

\* C1: recoverable protocol failures (AuthUpdated, EngineBootsNotProvided) do
\* not count against the timeout-retry budget: while fewer than `retries`
\* attempts have timed out, the call still has an attempt left after a
\* recoverable failure, so k such failures followed by a reply return the
\* reply's value whatever k is.
C1_RecoverableNotCounted ==
    (fPc = "loop" /\ Count(fLog, "timeout") < fRetries) => loop_has_next(fIter, fRetries)

\* C2: when every attempt ends in a network-level timeout the call ends with
\* the request error SnmpRequest: never a value, never another error kind.
C2_TimeoutsEndInRequestError ==
    AllAttemptsTimedOut => fResult = Some(Err("SnmpRequest"))

C2_Witness ==
    /\ AllAttemptsTimedOut
    /\ Count(fLog, "timeout") >= 2
    /\ fResult = Some(Err("SnmpRequest"))

\* C3: a call whose session was created sends at least one query (also with
\* retries = 0), and when all attempts time out it has sent 1 + retries
\* queries.
C3_OnePlusRetriesQueries ==
    (fPc = "done" /\ ReachedLoop) =>
        /\ Count(fLog, "query") >= 1
        /\ (AllAttemptsTimedOut => Count(fLog, "query") = 1 + fRetries)

\* ---------------------------------------------------------------- claims on the calculator

\* The calculator has run on slot s, which holds a reading.
Calculated(s) == cRan[s] # "no" /\ cPrinter[s] # None

\* C9: for every populated reading with max_level > 0, after the supply level
\* calculator has run, level_percent = Some((level * 100) / max_level), the
\* quotient of the integers level * 100 and max_level truncated toward zero;
\* (2800, 3500) gives 80, (1000, 3000) gives 33, (300, 3000) gives 10.
C9_PercentIsTruncatedQuotient ==
    \A s \in Slots :
        (Calculated(s) /\ cPrinter[s].val.max_level > 0) =>
            LET r == cPrinter[s].val
            IN /\ r.level_percent = Some(TruncDiv(r.level * 100, r.max_level))
               /\ (r.level = 2800 /\ r.max_level = 3500) => r.level_percent = Some(80)
               /\ (r.level = 1000 /\ r.max_level = 3000) => r.level_percent = Some(33)
               /\ (r.level = 300 /\ r.max_level = 3000) => r.level_percent = Some(10)

\* C10: for every populated reading with max_level <= 0, level_percent is
\* None after the supply level calculator has run.
C10_NoPercentWithoutPositiveMax ==
    \A s \in Slots :
        (Calculated(s) /\ cPrinter[s].val.max_level <= 0) =>
            cPrinter[s].val.level_percent = None

\* The reading was handed over as the Brother driver builds it.
BrotherBuilt(s) ==
    /\ cInput[s] # None
    /\ cInput[s].val.level = 0
    /\ cInput[s].val.max_level = 0
    /\ cInput[s].val.level_percent # None

MentionsBrother(name) ==
    \E i \in 1..(Len(name) - 6) :
        \A j \in 1..7 :
            \E k \in 1..Len(LowerCase) :
                /\ LowerCase[k] = BrotherMarker[j]
                /\ name[i + j - 1] \in {LowerCase[k], UpperCase[k]}

\* C4: the registry [Brother, Generic] is searched in order and the first
\* compatible driver wins: a name that holds the Brother marker in any case
\* selects Brother, never Generic; every other name selects Generic.
C4_FirstMatchPrefersBrother ==
    pDriver # None =>
        pDriver = Some(IF MentionsBrother(pName) THEN "Brother" ELSE "Generic")

C4_Witness ==
    /\ pName = <<"B", "R", "O", "T", "H", "E", "R", " ", "X">>
    /\ pDriver = Some("Brother")

\* A Generic poll that loaded its mapping document has returned.
GenericDone == pPc = "done" /\ pDriver = Some("Generic") /\ pDoc # None

NoFetchFailed == \A i \in 1..Len(pLog) : pLog[i].res = "ok"

\* A level or max_level fetch was issued for the slot.
FetchedFor(s) ==
    \E i \in 1..Len(pLog) : pLog[i].key \in {slot_key(s, "level"), slot_key(s, "max_level")}

SlotFields == {"level", "max_level"}

\* The keys the driver looks up: the serial number and the toners always, the
\* drums, the fuser and the reservoir when extra supplies are enabled.
LookedUp == Range(StartKeys) \cup (IF pExtra THEN Range(ExtraKeys) ELSE {})

C6_NoExtraFetchesWhenDisabled ==
    (pDriver = Some("Generic") /\ ~pExtra) =>
        /\ \A i \in 2..Len(pLog) : pLog[i].key \in Range(TonerKeys)
        /\ (pResult # None /\ pResult.val.tag = "Ok") =>
              \A s \in Range(DrumSlots \o FuserSlots \o ReservoirSlots) :
                  pResult.val.val.supplies[s] = None

C6_Witness ==
    /\ ~pExtra
    /\ pDoc = Some(FullDoc)
    /\ pResult # None
    /\ pResult.val.tag = "Ok"
    /\ Len(pLog) = 1 + Len(TonerKeys)

\* The position of a key in an order of fetching.
index_in(order, key) == CHOOSE i \in 1..Len(order) : order[i] = key

\* The fetches of the driver follow `order`.
InOrder(order) ==
    \A i, j \in 2..Len(pLog) :
        i < j => index_in(order, pLog[i].key) < index_in(order, pLog[j].key)

\* C7 as stated: the Generic driver fetches the toners (black, cyan, magenta,
\* yellow), then the drums, the fuser, the reservoir and the serial number.
C7_SerialAfterSupplies ==
    pDriver = Some("Generic") => InOrder(TonerKeys \o ExtraKeys \o <<SerialKey>>)

\* C7 amended: the Generic driver fetches the serial number first (extra
\* supplies enabled only), then the toners (black, cyan, magenta, yellow),
\* then (extra supplies enabled only) the drums, the fuser and the reservoir,
\* each level before its max_level.
C7_SerialBeforeSupplies ==
    pDriver = Some("Generic") =>
        /\ InOrder(<<SerialKey>> \o TonerKeys \o ExtraKeys)
        /\ pExtra \/ \A i \in 2..Len(pLog) : pLog[i].key # SerialKey

C7_Witness ==
    /\ pExtra
    /\ pDoc = Some(FullDoc)
    /\ pResult # None
    /\ pResult.val.tag = "Ok"
    /\ Len(pLog) = 2 + Len(TonerKeys) + Len(ExtraKeys)

\* C8: a fetch that fails is the last fetch of the poll, and the poll returns
\* its error and no Printer.
C8_FetchFailureAbortsPoll ==
    \A i \in 1..Len(pLog) :
        pLog[i].res # "ok" =>
            /\ i = Len(pLog)
            /\ pPc = "done"
            /\ pResult = Some(Err(pLog[i].res))

C8_Witness ==
    /\ pDriver = Some("Generic")
    /\ Len(pLog) = 6
    /\ pLog[6].res = "SnmpRequest"
    /\ pResult = Some(Err("SnmpRequest"))

\* The Brother driver has returned a Printer.
BrotherDone ==
    /\ pPc = "done"
    /\ pDriver = Some("Brother")
    /\ pResult.val.tag = "Ok"

\* The slots the Brother driver scans a code for.
ScannedSlots == Slots \ {"reservoir"}

\* [code, 0x01, 0x04] stands at position p of the blob.
MarkerAt(blob, p, code) ==
    /\ p + 2 <= Len(blob)
    /\ blob[p] = code
    /\ blob[p + 1] = 1
    /\ blob[p + 2] = 4

\* The first position of [code, 0x01, 0x04] in the blob, 0 if there is none.
FirstMarker(blob, code) ==
    IF \E p \in 1..Len(blob) : MarkerAt(blob, p, code)
    THEN CHOOSE p \in 1..Len(blob) :
            MarkerAt(blob, p, code) /\ \A q \in 1..(p - 1) : ~MarkerAt(blob, q, code)
    ELSE 0

\* The big-endian value of the 4 bytes after the marker at p, divided by 100.
HundredthAfter(blob, p) ==
    (blob[p + 3] * 16777216 + blob[p + 4] * 65536 + blob[p + 5] * 256 + blob[p + 6]) \div 100

\* What the scan for the code of slot s returned, read off the Printer.
Scanned(s) ==
    IF pResult.val.val.supplies[s] = None THEN None
    ELSE pResult.val.val.supplies[s].val.level_percent

\* C12: the scan for a code returns Some(v / 100, truncated), v being the
\* big-endian unsigned 32-bit value of the 4 bytes after the first
\* [code, 0x01, 0x04] of the blob, and None when the sequence does not occur
\* or fewer than 4 bytes follow it; [0x6F,0x01,0x04,0x00,0x00,0x21,0xFC]
\* gives Some(87) for code 0x6F.
C12_ScanIsTruncatedHundredth ==
    BrotherDone =>
        /\ \A s \in ScannedSlots :
              LET p == FirstMarker(pBlob, brother_code(s))
              IN Scanned(s) = IF p = 0 \/ p + 6 > Len(pBlob) THEN None
                              ELSE Some(HundredthAfter(pBlob, p))
        /\ pBlob = <<111, 1, 4, 0, 0, 33, 252>> => Scanned("black_toner") = Some(87)

\* The marker of the code of slot s stands in the blob with 4 bytes after it.
Marked(blob, s) ==
    /\ FirstMarker(blob, brother_code(s)) # 0
    /\ FirstMarker(blob, brother_code(s)) + 6 <= Len(blob)

C14_NoDrumsWhenDisabled ==
    (BrotherDone /\ ~pExtra) =>
        \A s \in Range(DrumSlots) : pResult.val.val.supplies[s] = None

\* C14 amended: the Brother driver scans the drum codes whether or not extra
\* supplies are enabled: a drum slot of its Printer is populated exactly when
\* the blob holds the drum's marker with 4 bytes after it.
C14_DrumsScannedWhateverTheFlag ==
    BrotherDone =>
        \A s \in Range(DrumSlots) :
            (pResult.val.val.supplies[s] # None) <=> Marked(pBlob, s)

C14_Witness ==
    /\ BrotherDone
    /\ ~pExtra
    /\ Marked(pBlob, "black_drum")
    /\ pResult.val.val.supplies["black_drum"] # None

\* The driver reports compatible with the name: Generic with every name,
\* Brother with the names that hold its marker.
Compatible(driver, name) == driver = "Generic" \/ MentionsBrother(name)

\* The name was fetched and a driver was looked for.
Selected == pPc \notin {"name", "select"} /\ pLog[1].res = "ok"

IsDecimal(seg) ==
    /\ seg # <<>>
    /\ \A i \in 1..Len(seg) : seg[i] \in {"0", "1", "2", "3", "4", "5", "6", "7", "8", "9"}

\* The number a piece of decimal digits denotes.
RECURSIVE ValueOf(_)
ValueOf(seg) ==
    IF seg = <<>> THEN 0
    ELSE ValueOf(SubSeq(seg, 1, Len(seg) - 1)) * 10
         + (CHOOSE d \in 0..9 : NatToString(d) = <<seg[Len(seg)]>>)

\* The piece is a decimal number no larger than u64::MAX, written with or
\* without one leading '+'.
IsU64Text(seg) ==
    LET body == IF seg # <<>> /\ seg[1] = "+" THEN Tail(seg) ELSE seg
    IN IsDecimal(body) /\ ValueOf(body) <= U64Max

Parsed == oResult # None

\* C15 as stated: a string of decimal pieces separated by dots is parsed to
\* the sequence of those integers, in order and of the same length; the empty
\* string is parsed to the empty sequence.
C15_DecimalPiecesParse ==
    Parsed =>
        /\ oInput = <<>> => oResult.val = Ok(<<>>)
        /\ (\A i \in 1..Len(oSegments) : IsDecimal(oSegments[i])) =>
              oResult.val = Ok([i \in 1..Len(oSegments) |-> ValueOf(oSegments[i])])

\* C15 amended: a string of decimal pieces, none larger than u64::MAX,
\* separated by dots is parsed to the sequence of those integers, in order
\* and of the same length ("1.3.6.1.2.1.25.3.2.1.3.1" gives
\* [1,3,6,1,2,1,25,3,2,1,3,1]); the empty string is parsed to the empty
\* sequence.
C15_DecimalPiecesWithinU64Parse ==
    Parsed =>
        /\ oInput = <<>> => oResult.val = Ok(<<>>)
        /\ (\A i \in 1..Len(oSegments) :
                IsDecimal(oSegments[i]) /\ ValueOf(oSegments[i]) <= U64Max) =>
              oResult.val = Ok([i \in 1..Len(oSegments) |-> ValueOf(oSegments[i])])
        /\ Len(oSegments) = 12 => oResult.val = Ok(<<1, 3, 6, 1, 2, 1, 25, 3, 2, 1, 3, 1>>)

C15_Witness ==
    /\ Len(oSegments) = 12
    /\ oResult = Some(Ok(<<1, 3, 6, 1, 2, 1, 25, 3, 2, 1, 3, 1>>))

\* C16 as stated: a non-empty string with a piece that is not one or more
\* decimal digits is rejected with the invalid-OID-format error, and no
\* sequence is returned.
C16_NonDecimalPieceFails ==
    (Parsed /\ oInput # <<>> /\ \E i \in 1..Len(oSegments) : ~IsDecimal(oSegments[i]))
    => oResult.val = Err("InvalidOidFormat")

\* C16 amended: a non-empty string with a piece that is not a decimal number
\* within u64, written as one or more digits with at most one leading '+', is
\* rejected with the invalid-OID-format error, and no sequence is returned
\* ("1.3.a.1", "1..3", "1." are rejected; "1.+3" is parsed to [1,3]).
C16_NonU64PieceFails ==
    (Parsed /\ oInput # <<>> /\ \E i \in 1..Len(oSegments) : ~IsU64Text(oSegments[i]))
    => oResult.val = Err("InvalidOidFormat")

C16_Witness ==
    /\ oSegments = << <<"1">>, <<>>, <<"3">> >>
    /\ oInput = <<"1", ".", ".", "3">>
    /\ oResult = Some(Err("InvalidOidFormat"))

\* ---------------------------------------------------------------- claims on the session factory

SessionDone == sPc = "done"

\* A credential the requested security level requires is missing.
CredentialMissing ==
    \/ sParams.username = None
    \/ sParams.username # None /\ Len(sParams.username.val) = 0
    \/ sParams.level # "NoAuthNoPriv" /\ sParams.auth = None
    \/ sParams.level = "AuthPriv" /\ sParams.priv = None

Built == SessionDone /\ sResult # None /\ sResult.val.tag = "Ok"

\* The reply to the probe holds a valid identifier at position i.
ValidAt(reply, i) ==
    /\ i + 2 <= Len(reply)
    /\ reply[i] = 4
    /\ reply[i + 1] > 4
    /\ i + 1 + reply[i + 1] <= Len(reply)
    /\ reply[i + 2] >= 128

DiscoverySucceeded ==
    /\ sReply # None
    /\ \E i \in 1..Len(sReply.val) : ValidAt(sReply.val, i)
    /\ sEngine # None

Discovered == sLog # <<>>

\* The position of the first valid identifier of the reply; 0 when there is none.
FirstValid(reply) ==
    IF \E i \in 1..Len(reply) : ValidAt(reply, i)
    THEN CHOOSE i \in 1..Len(reply) :
            ValidAt(reply, i) /\ \A j \in 1..(i - 1) : ~ValidAt(reply, j)
    ELSE 0

\* C20: once discovery has run, the identifier it returned is the first
\* candidate of the reply that is longer than 4 bytes and starts with a byte
\* whose high bit is set, candidates before it that fail either test being
\* passed over; with no reply within the timeout, or no valid identifier in
\* the reply, discovery fails with a protocol error and returns no identifier.
C20_FirstValidIdentifierOrProtocolError ==
    Discovered =>
        IF sReply = None \/ FirstValid(sReply.val) = 0
        THEN sResult = Some(Err("Protocol")) /\ sEngine = None
        ELSE LET p == FirstValid(sReply.val) IN
             /\ sEngine = Some(SubSeq(sReply.val, p + 2, p + 1 + sReply.val[p + 1]))
             /\ sResult \in {None, Some(Ok(Session("SecureV3", sParams.level, sEngine)))}

\* A too-short candidate and one without the high bit are passed over.
C20_Witness ==
    /\ Discovered
    /\ sReply = Some(<<4, 5, 1, 2, 3, 4, 5, 4, 6, 255, 0, 0, 0, 0, 1>>)
    /\ sEngine = Some(<<255, 0, 0, 0, 0, 1>>)

\* ---------------------------------------------------------------- more claims on value retrieval

Received == fReply # None

\* C24: a received reply is classified in this order: a non-zero error status
\* gives the request error naming the code, even when the reply carries
\* values; otherwise an empty result set gives OidNotFound; otherwise the
\* first value is converted to the requested type and the conversion's result
\* is returned. The call ends with the reply: nothing is retried after it.
C24_ReplyClassifiedInOrder ==
    Received =>
        LET r == fReply.val IN
        /\ fPc = "done"
        /\ fLog[Len(fLog)] = "reply"
        /\ Count(fLog, "reply") = 1
        /\ fResult = Some(IF r.error_status # 0
                          THEN [tag |-> "Err", kind |-> "SnmpRequest", detail |-> r.error_status]
                          ELSE IF Len(r.varbinds) = 0
                          THEN [tag |-> "Err", kind |-> "OidNotFound"]
                          ELSE from_snmp_value(fType, r.varbinds[1]))

C24_Witness ==
    /\ Received
    /\ fReply.val.error_status = 5
    /\ fReply.val.varbinds = <<Integer(42)>>
    /\ fResult = Some(ErrWith("SnmpRequest", 5))
    /\ Count(fLog, "query") < fRetries

\* An error-free reply with a value arrived for a call that asked for an i64.
ConvertedToI64 ==
    /\ Received
    /\ fType = "i64"
    /\ fReply.val.error_status = 0
    /\ fReply.val.varbinds # <<>>

\* The text is a decimal integer: digits, with or without a leading '-'.
IsIntegerText(text) ==
    IF text # <<>> /\ text[1] = "-" THEN IsDecimal(Tail(text)) ELSE IsDecimal(text)

IntegerOf(text) ==
    IF text[1] = "-" THEN -ValueOf(Tail(text)) ELSE ValueOf(text)

\* C25: converting a wire value to an integer gives the numerically equal
\* integer for every Integer, Counter32, Timeticks and Counter64 (over the
\* whole unsigned 64-bit range), the parsed number for an octet string that
\* holds a decimal integer, and a type-mismatch error for the wire values of
\* every other type.
C25_IntegerConversionKeepsValue ==
    ConvertedToI64 =>
        LET value == fReply.val.varbinds[1] IN
        /\ value.kind \in {"Integer", "Counter32", "Timeticks", "Counter64"}
              => fResult = Some(Ok(value.v))
        /\ (value.kind = "OctetString" /\ IsIntegerText(value.v))
              => fResult = Some(Ok(IntegerOf(value.v)))
        /\ value.kind \notin {"Integer", "Counter32", "Timeticks", "Counter64", "OctetString"}
              => fResult = Some(Err("TypeMismatch"))

\* C26: a protocol failure other than AuthUpdated and EngineBootsNotProvided
\* ends the call at once with the request error: it is the last event of the
\* call, no query and no session re-initialization follows it, whatever
\* number of attempts is left.
C26_FatalFailureReturnsAtOnce ==
    \A i \in 1..Len(fLog) :
        fLog[i] = "fatal" =>
            /\ i = Len(fLog)
            /\ fPc = "done"
            /\ fResult = Some(Err("SnmpRequest"))

C26_Witness ==
    /\ fLog = <<"session", "query", "fatal">>
    /\ fRetries = MaxRetries
    /\ fResult = Some(Err("SnmpRequest"))

\* C27 as stated: after a failure with EngineBootsNotProvided the session is
\* re-initialized next, no query coming in between, and after the
\* re-initialization, whether it succeeded, failed or timed out, the next
\* query is sent.
C27_ReinitThenNextQuery ==
    \A i \in 1..Len(fLog) :
        /\ fLog[i] = "EngineBootsNotProvided" =>
              IF i < Len(fLog) THEN fLog[i + 1] \in InitOutcomes ELSE fPc = "reinit"
        /\ fLog[i] \in InitOutcomes =>
              IF i < Len(fLog) THEN fLog[i + 1] = "query"
              ELSE fPc = "loop" /\ loop_has_next(fIter, fRetries)

\* C28: a call opens one session, before its first query, and every query
\* of the call goes through it: the session is the first event of a call that
\* sends a query and no second one is opened; a call whose session could not
\* be built returns that error and sends no query.
C28_OneSessionPerCall ==
    /\ Count(fLog, "session") <= 1
    /\ Count(fLog, "query") > 0 => fLog[1] = "session"
    /\ fPc \in {"loop", "await", "reinit"} => Count(fLog, "session") = 1
    /\ fResult = Some(Err("SessionError")) => (fPc = "done" /\ fLog = <<>>)

C28_Witness ==
    /\ fPc = "done"
    /\ Count(fLog, "session") = 1
    /\ Count(fLog, "query") = MaxRetries
    /\ Count(fLog, "init_ok") = 1
    /\ fLog[1] = "session"

\* C30: every call terminates whatever the device does; the queries of one
\* call, those that end in a timeout and those that end in a recoverable
\* failure together, never number more than `retries`; and a call that
\* reaches its loop with `retries` = 0 returns the request error.
C30_CallTerminatesWithinBudget ==
    /\ [](Count(fLog, "query") <= fRetries)
    /\ []((fPc = "done" /\ ReachedLoop /\ fRetries = 0) => fResult = Some(Err("SnmpRequest")))
    /\ <>(fPc = "done")

C30_Witness ==
    /\ fPc = "done"
    /\ fRetries = MaxRetries
    /\ Count(fLog, "query") = MaxRetries
    /\ Count(fLog, "timeout") = 1
    /\ Count(fLog, "AuthUpdated") = 1
    /\ Count(fLog, "EngineBootsNotProvided") = 1

\* ---------------------------------------------------------------- more claims on the poll

\* The name holds "HL-5350DN" at some offset.
HoldsLegacyModel(name) ==
    \E k \in 0..Len(name) :
        /\ k + 9 <= Len(name)
        /\ SubSeq(name, k + 1, k + 9) = <<"H", "L", "-", "5", "3", "5", "0", "D", "N">>

\* C29: the name fetch is the first fetch of a poll and the only fetch of the
\* name; a serial, blob or supply fetch is issued only after the name fetch
\* succeeded and a driver was selected from the name; a failed name fetch
\* ends the poll with its error, no driver selected; and the Brother driver
\* reads its blob from the legacy OID (...5.5.11.0) exactly when the name
\* contains "HL-5350DN", from ...5.5.8.0 otherwise.
C29_NameThenDriverThenSupplies ==
    /\ pLog # <<>> =>
          /\ pLog[1].key = NameKey
          /\ pLog[1].oid = NameOid
          /\ pLog[1].res # "ok" =>
                (Len(pLog) = 1 /\ pDriver = None /\ pResult = Some(Err(pLog[1].res)))
    /\ \A i \in 2..Len(pLog) :
          /\ pLog[i].key # NameKey
          /\ pLog[1].res = "ok"
          /\ pDriver # None
          /\ pDriver = get_driver(pName)
          /\ pLog[i].key \in {BrotherSerialKey, BrotherBlobKey} <=> pDriver = Some("Brother")
          /\ pLog[i].key = BrotherBlobKey =>
                pLog[i].oid = IF HoldsLegacyModel(pName)
                              THEN <<1, 3, 6, 1, 4, 1, 2435, 2, 3, 9, 4, 2, 1, 5, 5, 11, 0>>
                              ELSE <<1, 3, 6, 1, 4, 1, 2435, 2, 3, 9, 4, 2, 1, 5, 5, 8, 0>>
    /\ pDriver # None => (pLog # <<>> /\ pLog[1].res = "ok")

C29_Witness ==
    /\ pName = <<"B", "r", "o", "t", "h", "e", "r", " ", "H", "L", "-", "5", "3", "5", "0", "D", "N">>
    /\ Len(pLog) = 3
    /\ pLog[3].key = BrotherBlobKey
    /\ pLog[3].oid = <<1, 3, 6, 1, 4, 1, 2435, 2, 3, 9, 4, 2, 1, 5, 5, 11, 0>>
    /\ pLog[3].res = "ok"

\* ---------------------------------------------------------------- claims on loading the mapping document

Loaded == lResult # None

\* The file is named <stem>.json with a stem equal to the brand but for case.
NamedForBrand(f) ==
    /\ f.ext = "json"
    /\ Len(f.stem) = Len(lBrand)
    /\ \A i \in 1..Len(f.stem) : to_lowercase_char(f.stem[i]) = to_lowercase_char(lBrand[i])

\* The files load_printer searches.
Searched == IF lDir = None THEN InternalDataDir ELSE lDir.val.files

\* C22: load_printer returns a mapping only from a file with extension json
\* whose stem is the brand token but for case, and only when that file has an
\* entry keyed by the device name (it does so when the first such file is
\* readable JSON with that entry); a data_dir that is set but is no directory
\* gives InvalidDirectory and one that cannot be read DirectoryReadError; no
\* such file, an unreadable or malformed one, or one without the entry gives
\* UnsupportedPrinter carrying the device name. Every case returns a value.
C22_LoadPrinterOutcomes ==
    Loaded =>
        LET res == lResult.val
            set == lDir # None
            named == {i \in 1..Len(Searched) : NamedForBrand(Searched[i])}
        IN
        /\ res.tag \in {"Ok", "Err"}
        /\ res.tag = "Ok" =>
              \E i \in named :
                  /\ Searched[i].body = "json"
                  /\ lModel \in Searched[i].models
                  /\ res.val = [file |-> Searched[i].stem, model |-> lModel]
        /\ (set /\ lDir.val.kind = "not_a_directory") => res = Err("InvalidDirectory")
        /\ (set /\ lDir.val.kind = "unreadable") => res = Err("DirectoryReadError")
        /\ (~set \/ lDir.val.kind = "directory") =>
              IF named = {}
              THEN res = ErrWith("UnsupportedPrinter", lModel)
              ELSE LET first == CHOOSE i \in named : \A j \in named : i <= j IN
                   IF Searched[first].body = "json" /\ lModel \in Searched[first].models
                   THEN res = Ok([file |-> Searched[first].stem, model |-> lModel])
                   ELSE res = ErrWith("UnsupportedPrinter", lModel)

\* The brand "hp" finds HP.json behind a file that is not named for it.
C22_Witness ==
    /\ Loaded
    /\ lBrand = <<"h", "p">>
    /\ lDir = Some([kind |-> "directory",
                    files |-> <<File(<<"h", "p">>, "JSON", "json", {"HP M1"}),
                                File(<<"H", "P">>, "json", "json", {"HP M1"})>>])
    /\ lResult = Some(Ok(Mapping(<<"H", "P">>, "HP M1")))

\* ---------------------------------------------------------------- claims on concurrent calls

\* What a call with this budget returns when it runs alone against a device
\* that gives these answers, from answer number `n` on.
RECURSIVE outcome_alone(_, _, _)
outcome_alone(retries, script, n) ==
    IF n > retries THEN [tag |-> "Err", kind |-> "SnmpRequest", detail |-> "Max retries exceeded"]
    ELSE IF script[n] = "reply" THEN [tag |-> "Ok", val |-> "value"]
    ELSE IF script[n] = "fatal" THEN [tag |-> "Err", kind |-> "SnmpRequest", detail |-> "fatal"]
    ELSE outcome_alone(retries, script, n + 1)

\* C23: two calls that run in parallel share no mutable state: each opens a
\* session of its own and sends its queries through it, each counts its own
\* loop iterations, and under every interleaving of their exchanges each
\* returns what it would return running alone against the same answers.
C23_ConcurrentCallsDoNotInterfere ==
    \A c \in Calls :
        /\ qSession[c] # None =>
              (qSession[c].val.owner = c /\ qSession[c].val.queries = qIter[c])
        /\ qIter[c] <= qRetries[c]
        /\ qPc[c] = "done" => qResult[c] = Some(outcome_alone(qRetries[c], qScript[c], 1))

\* Call 2 finished with its value while call 1, whose first attempt timed
\* out, is still in its loop.
C23_Witness ==
    /\ qPc = <<"loop", "done">>
    /\ qIter = <<1, 2>>
    /\ qRetries = <<2, 2>>
    /\ qScript[1] = <<"timeout", "reply">>
    /\ qScript[2] = <<"AuthUpdated", "reply">>
    /\ qResult = <<None, Some(Ok("value"))>>

\* ---------------------------------------------------------------- claims on failure paths

\* C21: every failure path of the core returns an error value to the caller;
\* in particular the percent calculation returns for every level / max_level
\* pair: no input makes it panic.
C21_NoInputPanics == cPanicked = FALSE

====
